---- MODULE Spec2Model ----
(***************************************************************************)
(* Model of midi_generator/src/main.rs: the MThd header builder, the       *)
(* delta-time encoder, the event factory, the MTrk constructors and main.  *)
(* Every call to the random source is a nondeterministic choice over the   *)
(* range the code hands to Uniform / WeightedIndex.                        *)
(***************************************************************************)
EXTENDS Integers, Naturals, Sequences, FiniteSets, TLC

VARIABLES
    pc,          \* position of main / of the function under test
    header,      \* the MThd value main holds (NoHeader before MThd::new)
    tracks,      \* main's Vec<MTrk>
    iter,        \* the loop variable of main's for loops
    panicked,    \* message of the panic that ended the run, or NoPanic
    timecode,    \* MThd::new's local `timecode` (the bit sampled for bit 15)
    delta_time,  \* DeltaTime.data returned by create_delta_time
    kind,        \* the MIDIEvent / MetaEvent argument of the last factory call
    event,       \* Event.data returned by the last factory call
    tt_bytes,    \* new_meta_event's local `tt_bytes` (Tempo branch)
    sf,          \* new_meta_event's local `sf` (KeySignature branch)
    events,      \* the Vec<Event> returned by generate_mandatory_meta_events
    pick,        \* arguments, sampled `temp` and result of MetaEvent::pick_random
    calls        \* the calls main has made so far, in order, and whether each returned

vars == <<pc, header, tracks, iter, panicked, timecode, delta_time, kind, event,
          tt_bytes, sf, events, pick, calls>>

(***************************************************************************)
(* Bounds of the model.                                                    *)
(***************************************************************************)
\* how many values are kept at each end of a wide sampling range
SampleWidth == 2
\* how many interior values of the 24-bit tempo range are probed
TempoProbes == 64
\* text positions after this one repeat the character before them
MaxVaryLen == 2
\* largest `upper` argument handed to MetaEvent::pick_random
MaxPickUpper == 15

(***************************************************************************)
(* Fixed-width integer helpers (u8 / u16 / u32 arithmetic of the code).    *)
(***************************************************************************)
Pow2(n) == 2 ^ n

RECURSIVE BitOr(_, _)
BitOr(a, b) ==
    IF a = 0 THEN b
    ELSE IF b = 0 THEN a
    ELSE (IF (a % 2 = 1) \/ (b % 2 = 1) THEN 1 ELSE 0)
         + 2 * BitOr(a \div 2, b \div 2)

RECURSIVE BitAnd(_, _)
BitAnd(a, b) ==
    IF a = 0 \/ b = 0 THEN 0
    ELSE (IF (a % 2 = 1) /\ (b % 2 = 1) THEN 1 ELSE 0)
         + 2 * BitAnd(a \div 2, b \div 2)

\* x << n on a w-bit unsigned integer: bits shifted past the width are lost
Shl(x, n, w) == (x * Pow2(n)) % Pow2(w)

Shr(x, n) == x \div Pow2(n)

\* a cast that drops the sign instead of wrapping
AsU8Magnitude(x) == (IF x < 0 THEN 0 - x ELSE x) % 256

\* `as u8` of a non-negative or negative integer: two's complement wrap
AsU8(x) == x % 256

(***************************************************************************)
(* The random source.                                                      *)
(***************************************************************************)
UniformInclusive(lower, upper) == lower .. upper

\* Uniform::from(lower..upper).sample(): any integer of the half-open range
Uniform(lower, upper) == lower .. (upper - 1)

\* the SampleWidth lowest and highest values Uniform(lower, upper) can return
Sampled(lower, upper) ==
    {x \in ((lower - 1) .. (lower + SampleWidth - 1))
            \cup ((upper - SampleWidth) .. upper) : x \in Uniform(lower, upper)}

\* outcome of a call: a returned value, or the message of the panic it raised
NoPanic == "none"
Ok(v) == [panic |-> NoPanic, val |-> v]
Panic(msg) == [panic |-> msg, val |-> 0]

NoHeader == [identifier |-> <<>>, chunklen |-> 0, format |-> 0,
             ntracks |-> 0, tickdiv |-> 0]
NoTimecode == 2

(***************************************************************************)
(* MThd::new                                                               *)
(***************************************************************************)
MThdIdentifier == <<77, 84, 104, 100>>      \* 'M' 'T' 'h' 'd'

\* format 1 sampled from 1..26: an ensemble of a single track
NtrkOutcomesFormat1FromOne(fmt) ==
    CASE fmt = 0 -> {Ok(1)}
      [] fmt = 1 -> {Ok(n) : n \in Uniform(1, 26)}
      [] fmt = 2 -> {Ok(n) : n \in Uniform(1, 26)}
      [] OTHER -> {Panic("Error found when generating MThd chunk. Invalid ntracks")}

\* let ntrk = match fmt { ... }
NtrkOutcomes(fmt) ==
    CASE fmt = 0 -> {Ok(1)}
      [] fmt = 1 -> {Ok(n) : n \in Uniform(2, 26)}
      [] fmt = 2 -> {Ok(n) : n \in Uniform(1, 26)}
      [] OTHER -> {Panic("Error found when generating MThd chunk. Invalid ntracks")}

\* match Uniform::from(0..4).sample(&mut rng) as u8 { 0 => 0xE8, ... }
FpsOf(r) ==
    CASE r = 0 -> Ok(232)
      [] r = 1 -> Ok(231)
      [] r = 2 -> Ok(227)
      [] r = 3 -> Ok(226)
      [] OTHER -> Panic("Error found when generating MThd chunk. Invalid fps in tickdiv.")

\* match Uniform::from(0..5).sample(&mut rng) as u8 { 0 => 4, ... }
SubFrameOf(r) ==
    CASE r = 0 -> Ok(4)
      [] r = 1 -> Ok(8)
      [] r = 2 -> Ok(10)
      [] r = 3 -> Ok(80)
      [] r = 4 -> Ok(100)
      [] OTHER -> Panic("Error found when generating MThd chunk. Invalid sub-frame resolution in tickdiv.")

\* the frame-rate byte left in bits 0 - 7
PackTimecodeNoShift(fps, sub) == BitOr(fps, sub)

\* temp = temp << 8; temp = temp | <sub-frame resolution>
PackTimecode(fps, sub) == BitOr(Shl(fps, 8, 16), sub)

\* let tckdv_extra_bits: u16 = match timecode { ... }
ExtraBitsOutcomes(tc) ==
    CASE tc = 0 -> {Ok(96)}
      [] tc = 1 ->
            UNION {
                IF FpsOf(f).panic # NoPanic THEN {FpsOf(f)}
                ELSE {IF SubFrameOf(s).panic # NoPanic THEN SubFrameOf(s)
                      ELSE Ok(PackTimecode(FpsOf(f).val, SubFrameOf(s).val))
                        : s \in Uniform(0, 5)}
                : f \in Uniform(0, 4)}
      [] OTHER -> {Panic("Error found when generating MThd chunk. Invalid timecode in tickdiv.")}

\* let mut tckdv: u16 = timecode << 15; ... tckdv = tckdv | tckdv_extra_bits;
Tckdv(tc, extra) == BitOr(Shl(tc, 15, 16), extra)

\* every outcome of MThd::new() together with the timecode bit it sampled
MThdNewOutcomes ==
    UNION {
        UNION {
            IF n.panic # NoPanic THEN {[panic |-> n.panic, val |-> NoHeader, tc |-> NoTimecode]}
            ELSE UNION {
                {IF x.panic # NoPanic
                 THEN [panic |-> x.panic, val |-> NoHeader, tc |-> tc]
                 ELSE [panic |-> NoPanic,
                       val |-> [identifier |-> MThdIdentifier,
                                chunklen |-> 6,
                                format |-> fmt,
                                ntracks |-> n.val,
                                tickdiv |-> Tckdv(tc, x.val)],
                       tc |-> tc]
                   : x \in ExtraBitsOutcomes(tc)}
                : tc \in Uniform(0, 2)}
            : n \in NtrkOutcomes(fmt)}
        : fmt \in Uniform(0, 3)}

(***************************************************************************)
(* create_delta_time                                                       *)
(***************************************************************************)
\* WeightedIndex::new(&weights).unwrap().sample(): an index of positive weight
WeightedIndex(weights) == {i \in 0 .. (Len(weights) - 1) : weights[i + 1] > 0}

DeltaChoices == <<1, 2, 3, 4>>
DeltaWeights == <<80, 12, 6, 2>>

\* Uniform::from(0..128).sample(&mut rng) as u8 | 0x80
ContinuationByte(b) == BitOr(AsU8(b), 128)

\* the last byte carrying the continuation flag too
FinalByteWithFlag(b) == BitOr(AsU8(b), 128)

\* Uniform::from(0..128).sample(&mut rng) as u8
FinalByte(b) == AsU8(b)

\* match nbytes { 1 => ..., 2 => ..., 3 => ..., 4 => ..., _ => panic!() }
DeltaBytesOutcomes(nbytes) ==
    LET B == Sampled(0, 128) IN
    CASE nbytes = 1 -> {Ok(<<FinalByte(a)>>) : a \in B}
      [] nbytes = 2 -> {Ok(<<ContinuationByte(a), FinalByte(b)>>) : a \in B, b \in B}
      [] nbytes = 3 -> {Ok(<<ContinuationByte(a), ContinuationByte(b), FinalByte(c)>>)
                          : a \in B, b \in B, c \in B}
      [] nbytes = 4 -> {Ok(<<ContinuationByte(a), ContinuationByte(b),
                             ContinuationByte(c), FinalByte(d)>>)
                          : a \in B, b \in B, c \in B, d \in B}
      [] OTHER -> {Panic("Error when generating delta time. nbytes out of range.")}

CreateDeltaTimeOutcomes ==
    UNION {DeltaBytesOutcomes(DeltaChoices[i + 1]) : i \in WeightedIndex(DeltaWeights)}

(***************************************************************************)
(* Event::new_midi_event                                                   *)
(***************************************************************************)
MIDIEvent == {"NoteOff", "NoteOn", "PolyphonicPressure", "Controller",
              "ProgramChange", "ChannelPressure", "PitchBend"}

\* status_byte = status_byte | (Uniform::from(0..16).sample(&mut rng) as u8)
StatusByte(base, channel) == BitOr(base, AsU8(channel))

\* status byte, then two sampled data bytes
TwoDataBytes(base) ==
    {<<StatusByte(base, ch), AsU8(a), AsU8(b)>>
        : ch \in Uniform(0, 16), a \in Sampled(0, 128), b \in Sampled(0, 128)}

\* a one-data-byte kind given a second data byte
OneDataByteExtra(base) == TwoDataBytes(base)

\* status byte, then one sampled data byte
OneDataByte(base) ==
    {<<StatusByte(base, ch), AsU8(a)>> : ch \in Uniform(0, 16), a \in Sampled(0, 128)}

NewMidiEventOutcomes(k) ==
    CASE k = "NoteOff" -> TwoDataBytes(128)
      [] k = "NoteOn" -> TwoDataBytes(144)
      [] k = "PolyphonicPressure" -> TwoDataBytes(160)
      [] k = "Controller" -> TwoDataBytes(176)
      [] k = "ProgramChange" -> OneDataByte(192)
      [] k = "ChannelPressure" -> OneDataByte(208)
      [] k = "PitchBend" -> TwoDataBytes(224)

(***************************************************************************)
(* MetaEvent::pick_random                                                  *)
(***************************************************************************)
PickPanicMsg == "Error when picking random MetaEvent. Number out of bounds."

NoPick == [lower |-> 0, upper |-> 0, temp |-> 0, result |-> "none"]

\* the arms for 7 and 8 exchanged
PickRandomMatchSwapped(temp) ==
    CASE temp = 0 -> Ok("Text")
      [] temp = 1 -> Ok("SequenceORTrackName")
      [] temp = 2 -> Ok("InstrumentName")
      [] temp = 3 -> Ok("Lyric")
      [] temp = 4 -> Ok("ProgramName")
      [] temp = 5 -> Ok("MIDIChannelPrefix")
      [] temp = 6 -> Ok("MIDIPort")
      [] temp = 7 -> Ok("Marker")
      [] temp = 8 -> Ok("EndOfTrack")
      [] temp = 9 -> Ok("CuePoint")
      [] temp = 10 -> Ok("Tempo")
      [] temp = 11 -> Ok("TimeSignature")
      [] temp = 12 -> Ok("KeySignature")
      [] OTHER -> Panic(PickPanicMsg)

\* match temp { 0 => MetaEvent::Text, ..., 12 => MetaEvent::KeySignature, _ => panic!() }
PickRandomMatch(temp) ==
    CASE temp = 0 -> Ok("Text")
      [] temp = 1 -> Ok("SequenceORTrackName")
      [] temp = 2 -> Ok("InstrumentName")
      [] temp = 3 -> Ok("Lyric")
      [] temp = 4 -> Ok("ProgramName")
      [] temp = 5 -> Ok("MIDIChannelPrefix")
      [] temp = 6 -> Ok("MIDIPort")
      [] temp = 7 -> Ok("EndOfTrack")
      [] temp = 8 -> Ok("Marker")
      [] temp = 9 -> Ok("CuePoint")
      [] temp = 10 -> Ok("Tempo")
      [] temp = 11 -> Ok("TimeSignature")
      [] temp = 12 -> Ok("KeySignature")
      [] OTHER -> Panic(PickPanicMsg)

(***************************************************************************)
(* generate_random_characters and Event::new_meta_event                    *)
(***************************************************************************)
MetaEvent == {"Text", "SequenceORTrackName", "InstrumentName", "Lyric",
              "ProgramName", "MIDIChannelPrefix", "MIDIPort", "EndOfTrack",
              "Marker", "CuePoint", "Tempo", "TimeSignature", "KeySignature"}

\* for _ in 0..n { chars.push(uniform.sample(&mut rng) as u8); }
RECURSIVE generate_random_characters(_)
generate_random_characters(n) ==
    IF n <= 0 THEN {<<>>}
    ELSE UNION {
            {Append(chars, AsU8(c))
                : c \in IF Len(chars) < MaxVaryLen THEN Sampled(32, 128)
                        ELSE {chars[Len(chars)]}}
            : chars \in generate_random_characters(n - 1)}

\* one character more than the length byte declares
TextLikeOffByOne(type) ==
    UNION {
        {[data |-> <<255, type, AsU8(length)>> \o chars, tt |-> 0, sf |-> 0]
            : chars \in generate_random_characters(AsU8(length) + 1)}
        : length \in Uniform(1, 50)}

\* type byte, sampled length byte, then generate_random_characters(length)
TextLike(type) ==
    UNION {
        {[data |-> <<255, type, AsU8(length)>> \o chars, tt |-> 0, sf |-> 0]
            : chars \in generate_random_characters(AsU8(length))}
        : length \in Uniform(1, 50)}

\* the values of the tempo range that the model samples
TempoSamples ==
    Sampled(100000, 5000000)
    \cup {x \in {100000 + k * (((5000000 - 100000) \div TempoProbes) + 1)
                    : k \in 0 .. (TempoProbes - 1)}
             : x \in Uniform(100000, 5000000)}

\* the high byte masked with 0x0F0000: the top four bits are lost
TempoBytesNarrowMask(tt) ==
    <<AsU8(Shr(BitAnd(tt, 983040), 16)),
      AsU8(Shr(BitAnd(tt, 65280), 8)),
      AsU8(BitAnd(tt, 255))>>

\* push ((tt & 0xFF0000) >> 16) as u8, ((tt & 0x00FF00) >> 8) as u8, (tt & 0xFF) as u8
TempoBytes(tt) ==
    <<AsU8(Shr(BitAnd(tt, 16711680), 16)),
      AsU8(Shr(BitAnd(tt, 65280), 8)),
      AsU8(BitAnd(tt, 255))>>

NewMetaEventOutcomes(k) ==
    CASE k = "Text" -> TextLike(1)
      [] k = "SequenceORTrackName" -> TextLike(3)
      [] k = "InstrumentName" -> TextLike(4)
      [] k = "Lyric" -> TextLike(5)
      [] k = "ProgramName" -> TextLike(8)
      [] k = "MIDIChannelPrefix" ->
            {[data |-> <<255, 32, 1, AsU8(cc)>>, tt |-> 0, sf |-> 0] : cc \in Uniform(0, 16)}
      [] k = "MIDIPort" ->
            {[data |-> <<255, 33, 1, AsU8(pp)>>, tt |-> 0, sf |-> 0] : pp \in Uniform(0, 128)}
      [] k = "EndOfTrack" -> {[data |-> <<255, 47, 0>>, tt |-> 0, sf |-> 0]}
      [] k = "Marker" -> TextLike(6)
      [] k = "CuePoint" -> TextLike(7)
      [] k = "Tempo" ->
            {[data |-> <<255, 81, 3>> \o TempoBytes(tt), tt |-> tt, sf |-> 0]
                : tt \in TempoSamples}
      [] k = "TimeSignature" ->
            {[data |-> <<255, 88, 4, AsU8(nn), AsU8(dd), AsU8(cc), 8>>, tt |-> 0, sf |-> 0]
                : nn \in Uniform(1, 33), dd \in Uniform(0, 7), cc \in Uniform(1, 65)}
      [] k = "KeySignature" ->
            {[data |-> <<255, 89, 2, AsU8(s), AsU8(mi)>>, tt |-> 0, sf |-> s]
                : s \in Uniform(-7, 8), mi \in Uniform(0, 2)}

(***************************************************************************)
(* Event::generate_mandatory_meta_events                                   *)
(***************************************************************************)
\* tempo_bytes: FF 51 03 and the three bytes of tt_bytes, high to low
MandatoryTempo(tt) ==
    <<255, 81, 3,
      AsU8(Shr(BitAnd(tt, 16711680), 16)),
      AsU8(Shr(BitAnd(tt, 65280), 8)),
      AsU8(BitAnd(tt, 255))>>

\* dd and cc pushed in the opposite order
MandatoryTimeSignatureSwapped(nn, dd, cc) ==
    <<255, 88, 4, AsU8(nn), AsU8(cc), AsU8(dd), 8>>

\* time_signature_bytes: FF 58 04 nn dd cc bb
MandatoryTimeSignature(nn, dd, cc) ==
    <<255, 88, 4, AsU8(nn), AsU8(dd), AsU8(cc), 8>>

\* key_signature_bytes: FF 59 02 (sf as u8) mi
MandatoryKeySignature(s, mi) == <<255, 89, 2, AsU8(s), AsU8(mi)>>

\* events.push(tempo); events.push(time_signature); events.push(key_signature);
GenerateMandatoryOutcomes ==
    {[events |-> <<MandatoryTempo(tt), MandatoryTimeSignature(nn, dd, cc),
                   MandatoryKeySignature(s, mi)>>,
      tt |-> tt, sf |-> s]
        : tt \in Sampled(100000, 5000000),
          nn \in Sampled(1, 33), dd \in Uniform(0, 7), cc \in Sampled(1, 65),
          s \in Uniform(-7, 8), mi \in Uniform(0, 2)}

(***************************************************************************)
(* MTrk constructors                                                       *)
(***************************************************************************)
MTrkIdentifier == <<77, 84, 114, 107>>      \* 'M' 'T' 'r' 'k'

TodoMsg == "not yet implemented"

\* MTrk::new(): the sampled fmt is unused
MTrkNew == Ok([identifier |-> MTrkIdentifier, chunklen |-> 3, data |-> <<>>])

\* MTrk::new_global_tempo(): no (DeltaTime, Event) pair is generated
NewGlobalTempo == Ok([identifier |-> MTrkIdentifier, chunklen |-> 3, data |-> <<>>])

NewTrackFormat0 == Panic(TodoMsg)
NewTrackFormat1 == Panic(TodoMsg)
NewTrackFormat2 == Panic(TodoMsg)

(***************************************************************************)
(* main                                                                    *)
(***************************************************************************)
Init ==
    /\ pc = "start"
    /\ header = NoHeader
    /\ tracks = <<>>
    /\ iter = 0
    /\ panicked = NoPanic
    /\ timecode = NoTimecode
    /\ delta_time = <<>>
    /\ kind = "none"
    /\ event = <<>>
    /\ tt_bytes = 0
    /\ sf = 0
    /\ events = <<>>
    /\ pick = NoPick
    /\ calls = <<>>

unitVars == <<delta_time, kind, event, tt_bytes, sf, events, pick>>

\* a panic unwinds main: nothing else runs
Abort(msg) ==
    /\ pc' = "panicked"
    /\ panicked' = msg

\* main calls fn, which returns or panics
Call(fn, o) == calls' = Append(calls, [fn |-> fn, returned |-> (o.panic = NoPanic)])

\* let header = MThd::new(); let mut tracks = Vec::new();
MainHeader ==
    /\ pc = "start"
    /\ \E o \in MThdNewOutcomes :
          /\ timecode' = o.tc
          /\ Call("MThd::new", o)
          /\ IF o.panic # NoPanic
             THEN Abort(o.panic) /\ UNCHANGED header
             ELSE /\ header' = o.val
                  /\ pc' = "dispatch"
                  /\ UNCHANGED panicked
    /\ UNCHANGED <<tracks, iter, unitVars>>

\* tracks.push(callee): the push happens only when the callee returns
Push(fn, o, nextpc, nextiter) ==
    /\ Call(fn, o)
    /\ IF o.panic # NoPanic
       THEN Abort(o.panic) /\ UNCHANGED <<tracks, iter>>
       ELSE /\ tracks' = Append(tracks, o.val)
            /\ pc' = nextpc
            /\ iter' = nextiter
            /\ UNCHANGED panicked

\* format 1 entering the note-track loop without building the global tempo track
MainDispatchSkipTempo ==
    /\ pc = "dispatch"
    /\ CASE header.format = 0 -> Push("new_track_format_0", NewTrackFormat0, "done", iter)
         [] header.format = 1 -> /\ pc' = "loop"
                                 /\ iter' = 1
                                 /\ UNCHANGED <<tracks, panicked, calls>>
         [] OTHER -> /\ pc' = "loop"
                     /\ iter' = 0
                     /\ UNCHANGED <<tracks, panicked, calls>>
    /\ UNCHANGED <<header, timecode, unitVars>>

\* if header.format == 0 { ... } else if header.format == 1 { ... } else { ... }
MainDispatch ==
    /\ pc = "dispatch"
    /\ CASE header.format = 0 -> Push("new_track_format_0", NewTrackFormat0, "done", iter)
         [] header.format = 1 -> Push("new_global_tempo", NewGlobalTempo, "loop", 1)
         [] OTHER -> /\ pc' = "loop"
                     /\ iter' = 0
                     /\ UNCHANGED <<tracks, panicked, calls>>
    /\ UNCHANGED <<header, timecode, unitVars>>

\* for _ in 1..header.ntracks { ... } / for _ in 0..header.ntracks { ... }
MainLoop ==
    /\ pc = "loop"
    /\ IF iter < header.ntracks
       THEN IF header.format = 1
            THEN Push("new_track_format_1", NewTrackFormat1, "loop", iter + 1)
            ELSE Push("new_track_format_2", NewTrackFormat2, "loop", iter + 1)
       ELSE /\ pc' = "done"
            /\ UNCHANGED <<tracks, iter, panicked, calls>>
    /\ UNCHANGED <<header, timecode, unitVars>>

(***************************************************************************)
(* The functions main never calls, each run from a caller of its own.      *)
(***************************************************************************)
InitUnit ==
    /\ pc = "call"
    /\ header = NoHeader
    /\ tracks = <<>>
    /\ iter = 0
    /\ panicked = NoPanic
    /\ timecode = NoTimecode
    /\ delta_time = <<>>
    /\ kind = "none"
    /\ event = <<>>
    /\ tt_bytes = 0
    /\ sf = 0
    /\ events = <<>>
    /\ pick = NoPick
    /\ calls = <<>>

mainVars == <<header, tracks, iter, timecode, calls>>

\* let d = create_delta_time();
CreateDeltaTime ==
    /\ pc = "call"
    /\ \E o \in CreateDeltaTimeOutcomes :
          IF o.panic # NoPanic
          THEN Abort(o.panic) /\ UNCHANGED delta_time
          ELSE /\ delta_time' = o.val
               /\ pc' = "create_delta_time"
               /\ UNCHANGED panicked
    /\ UNCHANGED <<mainVars, kind, event, tt_bytes, sf, events, pick>>

\* let e = Event::new_midi_event(k);
NewMidiEvent ==
    /\ pc = "call"
    /\ \E k \in MIDIEvent :
          /\ kind' = k
          /\ \E data \in NewMidiEventOutcomes(k) : event' = data
    /\ pc' = "new_midi_event"
    /\ tt_bytes' = 0
    /\ sf' = 0
    /\ UNCHANGED <<mainVars, panicked, delta_time, events, pick>>

\* let e = Event::new_meta_event(k);
NewMetaEvent ==
    /\ pc = "call"
    /\ \E k \in MetaEvent :
          /\ kind' = k
          /\ \E o \in NewMetaEventOutcomes(k) :
                /\ event' = o.data
                /\ tt_bytes' = o.tt
                /\ sf' = o.sf
    /\ pc' = "new_meta_event"
    /\ UNCHANGED <<mainVars, panicked, delta_time, events, pick>>

\* let events = Event::generate_mandatory_meta_events();
GenerateMandatoryMetaEvents ==
    /\ pc = "call"
    /\ \E o \in GenerateMandatoryOutcomes :
          /\ events' = o.events
          /\ tt_bytes' = o.tt
          /\ sf' = o.sf
    /\ pc' = "generate_mandatory_meta_events"
    /\ UNCHANGED <<mainVars, panicked, delta_time, kind, event, pick>>

\* let m = MetaEvent::pick_random(lower, upper);   (lower < upper)
PickRandom ==
    /\ pc = "call"
    /\ \E upper \in 1 .. MaxPickUpper :
          \E lower \in 0 .. (upper - 1) :
             \E temp \in Uniform(lower, upper) :
                LET o == PickRandomMatch(temp) IN
                IF o.panic # NoPanic
                THEN /\ Abort(o.panic)
                     /\ pick' = [lower |-> lower, upper |-> upper, temp |-> temp,
                                 result |-> "none"]
                ELSE /\ pick' = [lower |-> lower, upper |-> upper, temp |-> temp,
                                 result |-> o.val]
                     /\ pc' = "pick_random"
                     /\ UNCHANGED panicked
    /\ UNCHANGED <<mainVars, delta_time, kind, event, tt_bytes, sf, events>>

SpecPickRandom == InitUnit /\ [][PickRandom]_vars

SpecDeltaTime == InitUnit /\ [][CreateDeltaTime]_vars

NextEvent == NewMidiEvent \/ NewMetaEvent \/ GenerateMandatoryMetaEvents

SpecEvent == InitUnit /\ [][NextEvent]_vars

Next == MainHeader \/ MainDispatch \/ MainLoop

Spec == Init /\ [][Next]_vars

(***************************************************************************)
(* Properties of MThd::new                                                 *)
(***************************************************************************)
HeaderBuilt == header # NoHeader

Bit15(x) == Shr(BitAnd(x, 32768), 15)

\* C1: every header MThd::new produces has format in {0,1,2}; format 0 has
\* exactly 1 track, format 1 has 2 <= ntracks < 26, format 2 has
\* 1 <= ntracks < 26.
C1_FormatAndTrackCount ==
    HeaderBuilt =>
        /\ header.format \in {0, 1, 2}
        /\ (header.format = 0 => header.ntracks = 1)
        /\ (header.format = 1 => 2 <= header.ntracks /\ header.ntracks < 26)
        /\ (header.format = 2 => 1 <= header.ntracks /\ header.ntracks < 26)

C1_Witness == HeaderBuilt /\ header.format = 1 /\ header.ntracks = 25

\* C2: if bit 15 of tickdiv is 0 the lower 15 bits equal 96; if it is 1 the
\* upper byte is one of 0xE8, 0xE7, 0xE3, 0xE2 and the lower byte one of
\* 4, 8, 10, 80, 100; the timecode choice always sets bit 15 and the metrical
\* choice always leaves it clear.
C2_TickDivision ==
    HeaderBuilt =>
        /\ (Bit15(header.tickdiv) = 0 => BitAnd(header.tickdiv, 32767) = 96)
        /\ (Bit15(header.tickdiv) = 1 =>
                /\ Shr(header.tickdiv, 8) \in {232, 231, 227, 226}
                /\ BitAnd(header.tickdiv, 255) \in {4, 8, 10, 80, 100})
        /\ timecode \in {0, 1}
        /\ Bit15(header.tickdiv) = timecode

C2_Witness == HeaderBuilt /\ timecode = 1 /\ header.tickdiv = 57956

\* C3: identifier is the four bytes 'M','T','h','d' and chunklen is 6 whatever
\* format, track count and timing mode were chosen, and MThd::new always
\* returns: none of its panic branches is reached.
C3_HeaderConstantsNoPanic ==
    /\ (pc # "start" =>
            /\ HeaderBuilt
            /\ header.identifier = <<77, 84, 104, 100>>
            /\ header.chunklen = 6)
    /\ panicked \in {NoPanic, TodoMsg}

C3_Witness ==
    /\ pc = "dispatch"
    /\ header.format = 2
    /\ header.ntracks = 1
    /\ timecode = 1
    /\ header.chunklen = 6

(***************************************************************************)
(* Properties of create_delta_time                                         *)
(***************************************************************************)
\* C4: a delta-time has 1 to 4 bytes, every byte but the last has bit 7 set
\* and the last byte has bit 7 clear.
C4_DeltaTimeShape ==
    pc = "create_delta_time" =>
        /\ Len(delta_time) \in 1 .. 4
        /\ \A i \in 1 .. (Len(delta_time) - 1) :
              delta_time[i] >= 128 /\ delta_time[i] <= 255
        /\ delta_time[Len(delta_time)] < 128

C4_Witness ==
    /\ pc = "create_delta_time"
    /\ Len(delta_time) = 4
    /\ delta_time[1] = 255
    /\ delta_time[4] = 127

(***************************************************************************)
(* Properties of the event factory                                         *)
(***************************************************************************)
\* the type code each meta event kind is specified to carry
ExpectedMetaType(k) ==
    CASE k = "Text" -> 1
      [] k = "SequenceORTrackName" -> 3
      [] k = "InstrumentName" -> 4
      [] k = "Lyric" -> 5
      [] k = "Marker" -> 6
      [] k = "CuePoint" -> 7
      [] k = "ProgramName" -> 8
      [] k = "MIDIChannelPrefix" -> 32
      [] k = "MIDIPort" -> 33
      [] k = "EndOfTrack" -> 47
      [] k = "Tempo" -> 81
      [] k = "TimeSignature" -> 88
      [] k = "KeySignature" -> 89

\* C5: a meta event is 0xFF, the kind's type code, a declared length and
\* exactly that many bytes after it; EndOfTrack declares 0 and nothing follows.
C5_MetaDeclaredLength ==
    pc = "new_meta_event" =>
        /\ Len(event) >= 3
        /\ event[1] = 255
        /\ event[2] = ExpectedMetaType(kind)
        /\ Len(event) = 3 + event[3]
        /\ (kind = "EndOfTrack" => event[3] = 0 /\ Len(event) = 3)

C5_Witness ==
    /\ pc = "new_meta_event"
    /\ kind = "Text"
    /\ event[3] = 49
    /\ Len(event) = 52

\* the upper nibble of the status byte each channel-voice kind is specified to carry
ExpectedFamily(k) ==
    CASE k = "NoteOff" -> 8
      [] k = "NoteOn" -> 9
      [] k = "PolyphonicPressure" -> 10
      [] k = "Controller" -> 11
      [] k = "ProgramChange" -> 12
      [] k = "ChannelPressure" -> 13
      [] k = "PitchBend" -> 14

\* C6: a channel-voice event is a status byte whose upper nibble is the kind's
\* family and whose lower nibble is a channel 0..15, then exactly 1 data byte
\* for ProgramChange and ChannelPressure and exactly 2 for every other kind,
\* each data byte below 128.
C6_MidiEventLayout ==
    pc = "new_midi_event" =>
        /\ Len(event) >= 1
        /\ event[1] \div 16 = ExpectedFamily(kind)
        /\ event[1] % 16 \in 0 .. 15
        /\ Len(event) - 1 = (IF kind \in {"ProgramChange", "ChannelPressure"} THEN 1 ELSE 2)
        /\ \A i \in 2 .. Len(event) : event[i] >= 0 /\ event[i] < 128

C6_Witness ==
    /\ pc = "new_midi_event"
    /\ kind = "ProgramChange"
    /\ event = <<207, 127>>

\* C7: a Tempo event is exactly 6 bytes, FF 51 03 and three bytes that read
\* big-endian give back the sampled value, which lies in [100000, 5000000).
C7_TempoRoundTrip ==
    (pc = "new_meta_event" /\ kind = "Tempo") =>
        /\ Len(event) = 6
        /\ SubSeq(event, 1, 3) = <<255, 81, 3>>
        /\ \A i \in 4 .. 6 : event[i] \in 0 .. 255
        /\ event[4] * 65536 + event[5] * 256 + event[6] = tt_bytes
        /\ tt_bytes >= 100000
        /\ tt_bytes < 5000000

C7_Witness ==
    /\ pc = "new_meta_event"
    /\ kind = "Tempo"
    /\ tt_bytes = 4999999
    /\ event = <<255, 81, 3, 76, 75, 63>>

(***************************************************************************)
(* Properties of the track chunks main holds                               *)
(***************************************************************************)
\* serialized size of a track body: delta-time bytes plus event bytes of every pair
RECURSIVE BodyLen(_)
BodyLen(data) ==
    IF data = <<>> THEN 0
    ELSE Len(Head(data)[1]) + Len(Head(data)[2]) + BodyLen(Tail(data))

IsEndOfTrack(pair) == pair[2] = <<255, 47, 0>>

IsMetaOfType(pair, type) ==
    Len(pair[2]) >= 2 /\ pair[2][1] = 255 /\ pair[2][2] = type

IsChannelVoice(pair) ==
    Len(pair[2]) >= 1 /\ pair[2][1] >= 128 /\ pair[2][1] < 240

\* C8: chunklen of every track chunk equals the serialized byte count of its
\* body, the EndOfTrack pair included.
C8_ChunklenIsBodyLength ==
    \A t \in 1 .. Len(tracks) : tracks[t].chunklen = BodyLen(tracks[t].data)

\* C9: every track chunk has a non-empty body whose final pair is an
\* EndOfTrack meta event with zero-length payload, occurring exactly once.
C9_EndsWithEndOfTrack ==
    \A t \in 1 .. Len(tracks) :
        LET data == tracks[t].data IN
        /\ Len(data) >= 1
        /\ IsEndOfTrack(data[Len(data)])
        /\ Cardinality({i \in 1 .. Len(data) : IsMetaOfType(data[i], 47)}) = 1

\* C10: in a format-1 file the first track holds a Tempo, a TimeSignature and
\* a KeySignature event and no channel-voice event, and no other track holds
\* any of the three.
C10_GlobalTempoTrack ==
    (HeaderBuilt /\ header.format = 1) =>
        /\ Len(tracks) >= 1 =>
              LET data == tracks[1].data IN
              /\ \A type \in {81, 88, 89} :
                    \E i \in 1 .. Len(data) : IsMetaOfType(data[i], type)
              /\ \A i \in 1 .. Len(data) : ~IsChannelVoice(data[i])
        /\ \A t \in 2 .. Len(tracks) :
              \A i \in 1 .. Len(tracks[t].data) :
                  \A type \in {81, 88, 89} : ~IsMetaOfType(tracks[t].data[i], type)

(***************************************************************************)
(* Properties of main                                                      *)
(***************************************************************************)
\* C11: for every header MThd::new can produce, main runs to completion
\* without a fatal abort and ends with exactly header.ntracks track chunks.
C11_MainCompletes ==
    /\ pc # "panicked"
    /\ panicked = NoPanic
    /\ (pc = "done" => Len(tracks) = header.ntracks)

TrackConstructors == {"new_track_format_0", "new_global_tempo",
                      "new_track_format_1", "new_track_format_2"}

IsBuiltTrack(c) == c.fn \in TrackConstructors /\ c.returned

\* the constructors whose chunk was pushed onto tracks, in push order
Built == SelectSeq(calls, IsBuiltTrack)

\* C12: the header is built before any track; with format 1 the global tempo
\* track is built before every note track and is element 0 of tracks, and
\* new_track_format_1 is invoked only after new_global_tempo has returned;
\* with format 0 or 2 new_global_tempo is never invoked.
C12_MainOrdering ==
    /\ Len(tracks) = Len(Built)
    /\ \A j \in 1 .. Len(calls) :
          /\ (calls[j].fn = "MThd::new") = (j = 1)
          /\ (calls[j].fn \in TrackConstructors => HeaderBuilt /\ calls[1].returned)
          /\ (calls[j].fn = "new_track_format_1" =>
                /\ header.format = 1
                /\ \E i \in 1 .. (j - 1) :
                      calls[i].fn = "new_global_tempo" /\ calls[i].returned)
          /\ (calls[j].fn = "new_global_tempo" => header.format = 1)
    /\ (HeaderBuilt /\ header.format = 1 /\ Len(tracks) >= 1 =>
            /\ Built[1].fn = "new_global_tempo"
            /\ tracks[1] = NewGlobalTempo.val)
    /\ (HeaderBuilt /\ header.format = 1 /\ pc \in {"loop", "done"} => Len(tracks) >= 1)

C12_Witness ==
    /\ header.format = 1
    /\ Len(calls) = 3
    /\ calls[2] = [fn |-> "new_global_tempo", returned |-> TRUE]
    /\ calls[3].fn = "new_track_format_1"
    /\ Len(tracks) = 1

(***************************************************************************)
(* Properties of generate_mandatory_meta_events                            *)
(***************************************************************************)
\* the byte sequences Event::new_meta_event can return for a kind
FactoryData(k) == {o.data : o \in NewMetaEventOutcomes(k)}

FactoryTempo == FactoryData("Tempo")
FactoryTimeSignature == FactoryData("TimeSignature")
FactoryKeySignature == FactoryData("KeySignature")

\* every factory event built from values the helper's model also samples is
\* one the helper can return in the same position
FactoryCoveredByMandatory ==
    /\ {o.data : o \in {x \in NewMetaEventOutcomes("Tempo")
                            : x.tt \in Sampled(100000, 5000000)}}
          \subseteq {m.events[1] : m \in GenerateMandatoryOutcomes}
    /\ {d \in FactoryTimeSignature
            : d[4] \in Sampled(1, 33) /\ d[6] \in Sampled(1, 65)}
          \subseteq {m.events[2] : m \in GenerateMandatoryOutcomes}
    /\ FactoryKeySignature
          \subseteq {m.events[3] : m \in GenerateMandatoryOutcomes}

\* C13: generate_mandatory_meta_events returns exactly three events, Tempo,
\* TimeSignature, KeySignature in that order, and each can take exactly the
\* byte sequences new_meta_event can produce for that kind: FF 51 03 and a
\* value in [100000, 5000000); FF 58 04, nn in [1,33), dd in [0,7),
\* cc in [1,65), bb = 8; FF 59 02, sf, mi.
C13_MandatoryMatchesFactory ==
    pc = "generate_mandatory_meta_events" =>
        /\ Len(events) = 3
        /\ events[1] \in FactoryTempo
        /\ events[2] \in FactoryTimeSignature
        /\ events[3] \in FactoryKeySignature
        /\ Len(events[1]) = 6
        /\ SubSeq(events[1], 1, 3) = <<255, 81, 3>>
        /\ events[1][4] * 65536 + events[1][5] * 256 + events[1][6] \in 100000 .. 4999999
        /\ Len(events[2]) = 7
        /\ SubSeq(events[2], 1, 3) = <<255, 88, 4>>
        /\ events[2][4] \in 1 .. 32
        /\ events[2][5] \in 0 .. 6
        /\ events[2][6] \in 1 .. 64
        /\ events[2][7] = 8
        /\ Len(events[3]) = 5
        /\ SubSeq(events[3], 1, 3) = <<255, 89, 2>>
        /\ FactoryCoveredByMandatory

C13_Witness ==
    /\ pc = "generate_mandatory_meta_events"
    /\ events = << <<255, 81, 3, 76, 75, 63>>,
                   <<255, 88, 4, 32, 6, 64, 8>>,
                   <<255, 89, 2, 249, 1>> >>

(***************************************************************************)
(* Properties of MetaEvent::pick_random                                    *)
(***************************************************************************)
\* the variants of MetaEvent in declaration order, index 0 first
MetaEventByIndex ==
    <<"Text", "SequenceORTrackName", "InstrumentName", "Lyric", "ProgramName",
      "MIDIChannelPrefix", "MIDIPort", "EndOfTrack", "Marker", "CuePoint",
      "Tempo", "TimeSignature", "KeySignature">>

PickCalled == pc \in {"pick_random", "panicked"}

\* C14: with 0 <= lower < upper <= 13 pick_random never panics and returns the
\* variant whose index lies in [lower, upper); pick_random(8, 13) returns only
\* Marker, CuePoint, Tempo, TimeSignature or KeySignature; a sampled index of
\* 13 or more, possible only with upper > 13, ends in the out-of-bounds panic.
C14_PickRandomRange ==
    PickCalled =>
        /\ (pick.upper <= 13 => pc = "pick_random" /\ panicked = NoPanic)
        /\ (pc = "pick_random" =>
                \E i \in pick.lower .. (pick.upper - 1) :
                    i <= 12 /\ pick.result = MetaEventByIndex[i + 1])
        /\ (pick.lower = 8 /\ pick.upper = 13 =>
                pick.result \in {"Marker", "CuePoint", "Tempo",
                                 "TimeSignature", "KeySignature"})
        /\ (pick.temp >= 13 =>
                pc = "panicked" /\ panicked = PickPanicMsg /\ pick.upper > 13)
        /\ (pc = "panicked" => pick.upper > 13)

C14_Witness ==
    /\ pc = "pick_random"
    /\ pick.lower = 8
    /\ pick.upper = 13
    /\ pick.result = "KeySignature"

\* the out-of-bounds panic after pick_random(lower, 14)
C14_PanicReached ==
    /\ pc = "panicked"
    /\ pick.upper = 14
    /\ pick.temp = 13
    /\ panicked = PickPanicMsg

(***************************************************************************)
(* Properties of the KeySignature event                                    *)
(***************************************************************************)
\* a byte read as an i8
SignedByte(b) == IF b >= 128 THEN b - 256 ELSE b

IsKeySignatureOf(e, count) ==
    /\ Len(e) = 5
    /\ SubSeq(e, 1, 3) = <<255, 89, 2>>
    /\ e[4] \in (0 .. 7) \cup (249 .. 255)
    /\ count \in -7 .. 7
    /\ SignedByte(e[4]) = count
    /\ e[5] \in {0, 1}

\* C15: every KeySignature event, from new_meta_event or from
\* generate_mandatory_meta_events, is FF 59 02 sf mi where sf is the two's
\* complement byte of the sampled count in [-7, 8) (0..7 or 0xF9..0xFF, read
\* back as a signed byte it is the count) and mi is 0 or 1.
C15_KeySignatureEncoding ==
    /\ (pc = "new_meta_event" /\ kind = "KeySignature" => IsKeySignatureOf(event, sf))
    /\ (pc = "generate_mandatory_meta_events" => IsKeySignatureOf(events[3], sf))

C15_Witness ==
    /\ pc = "new_meta_event"
    /\ kind = "KeySignature"
    /\ sf = -7
    /\ event = <<255, 89, 2, 249, 1>>

====
